---- MODULE Spec2Model ----
(***************************************************************************)
(* Jump mode of the amp editor: JumpMode::tokens walks the buffer's token  *)
(* stream, splits every token on whitespace, decides for each sub-token    *)
(* whether it gets a jump tag, and records tag -> Position in              *)
(* tag_positions; JumpMode::map_tag looks a tag up.                        *)
(*                                                                         *)
(* A lexeme is a sequence of characters; a character is a one-element      *)
(* string.  Rust's String::len() counts UTF-8 bytes, chars() counts code   *)
(* points; Utf8Len keeps the two apart.                                    *)
(***************************************************************************)
EXTENDS Integers, Sequences, FiniteSets, TLC

\* ------------------------------------------------------------------ bounds
MaxTokens == 2
MaxChars == 3

\* -------------------------------------------------------------- characters
\* "a": an ASCII word character; "U+E9": e with acute accent, a word
\* character of two bytes;
\* " " and "\n": whitespace.
Chars == {"a", "U+E9", " ", "\n"}

IsWhitespace(c) == c \in {" ", "\n"}

\* UTF-8 width of one character.
Utf8Len(c) == IF c = "U+E9" THEN 2 ELSE 1

RECURSIVE ByteLen(_)
\* str::len(): the number of bytes of a lexeme.
ByteLen(s) == IF s = << >> THEN 0 ELSE Utf8Len(Head(s)) + ByteLen(Tail(s))

\* The categories the buffer's lexer gives a lexeme: Whitespace to a run of
\* whitespace, one of two others to the rest.
CategoriesOf(lexeme) ==
    IF \A i \in DOMAIN lexeme : IsWhitespace(lexeme[i])
    THEN {"Whitespace"} ELSE {"Keyword", "Comment"}

Letters == << "a", "b", "c", "d", "e", "f", "g", "h", "i", "j", "k", "l", "m",
              "n", "o", "p", "q", "r", "s", "t", "u", "v", "w", "x", "y", "z" >>

None == [some |-> FALSE]
Some(v) == [some |-> TRUE, value |-> v]

\* ------------------------------------------------- collaborators of tokens()
RECURSIVE SpanLen(_, _)
\* Length of the longest prefix of s whose characters all have whitespace-ness ws.
SpanLen(s, ws) ==
    IF s = << >> \/ IsWhitespace(Head(s)) # ws THEN 0
    ELSE 1 + SpanLen(Tail(s), ws)

RECURSIVE lex(_)
\* movement_lexer::lex: maximal runs of whitespace (category Whitespace) and
\* of non-whitespace, in order.
lex(s) ==
    IF s = << >> THEN << >>
    ELSE LET ws == IsWhitespace(Head(s))
             n  == SpanLen(s, ws)
         IN  << [lexeme |-> SubSeq(s, 1, n),
                 category |-> IF ws THEN "Whitespace" ELSE "Text"] >>
             \o lex(SubSeq(s, n + 1, Len(s)))

RECURSIVE Newlines(_)
Newlines(s) ==
    IF s = << >> THEN 0
    ELSE (IF Head(s) = "\n" THEN 1 ELSE 0) + Newlines(Tail(s))

RECURSIVE LastLineLen(_)
\* Number of characters after the last newline of s (all of s without one).
LastLineLen(s) ==
    IF s = << >> \/ s[Len(s)] = "\n" THEN 0
    ELSE 1 + LastLineLen(SubSeq(s, 1, Len(s) - 1))

\* Distance::from_str
DistanceFromStr(s) == [lines |-> Newlines(s), offset |-> LastLineLen(s)]

\* Position::add: a distance that crosses a newline resets the offset first.
PositionAdd(p, d) ==
    [line   |-> p.line + d.lines,
     offset |-> IF d.lines > 0 THEN d.offset ELSE p.offset + d.offset]

\* LineRange::includes
includes(range, line) == range.start <= line /\ line < range.end

\* TagGenerator::next: "aa", "ab", ..., "az", "ba", ...
TagGeneratorNext(index) ==
    [tag   |-> Some(<< Letters[(index \div Len(Letters)) + 1],
                       Letters[(index % Len(Letters)) + 1] >>),
     index |-> index + 1]

\* SingleCharacterTagGenerator::next: "a", "b", ..., then exhausted.
SingleCharactersNext(index) ==
    IF index < Len(Letters)
    THEN [tag |-> Some(<< Letters[index + 1] >>), index |-> index + 1]
    ELSE [tag |-> None, index |-> index]

\* ------------------------------------------------------------------ inputs
RECURSIVE Flatten(_)
\* The text of a token sequence: its lexemes concatenated.
Flatten(ts) == IF ts = << >> THEN << >> ELSE Head(ts).lexeme \o Flatten(Tail(ts))

LexemesOfLen(n) == [1..n -> Chars]

RECURSIVE Streams(_, _)
\* Token streams of at most k tokens and at most n characters, no token empty.
Streams(k, n) ==
    IF k = 0 \/ n = 0 THEN { << >> }
    ELSE { << >> } \cup
         UNION { UNION { { << [lexeme |-> l, category |-> c] >> \o rest :
                             c \in CategoriesOf(l),
                             rest \in Streams(k - 1, n - m) } :
                         l \in LexemesOfLen(m) } : m \in 1..n }

BufferTokens == Streams(MaxTokens, MaxChars)

VARIABLES
    line_mode,         \* JumpMode.line_mode
    tag_positions,     \* JumpMode.tag_positions
    buffer,            \* the Buffer handed to tokens(): [tokens, cursor]
    visible_range,     \* the LineRange handed to tokens()
    pc,                \* "idle" outside tokens(), "tagging" inside its loops
    tokens_left,       \* what buffer.tokens() has yet to yield
    token,             \* the token of the outer loop
    subtokens,         \* what the inner loop has yet to visit
    current_position,
    jump_tokens,
    tag_generator,     \* index of TagGenerator
    single_characters, \* index of SingleCharacterTagGenerator
    issued,            \* history: the tags handed out by the latest pass
    earlier,           \* history: tag_positions as the pass before left it
    returned           \* what the latest call returned to its caller

vars == << line_mode, tag_positions, buffer, visible_range, pc, tokens_left,
           token, subtokens, current_position, jump_tokens, tag_generator,
           single_characters, issued, earlier, returned >>

\* The local variables of tokens().
locals == << tokens_left, token, subtokens, current_position, jump_tokens,
             tag_generator, single_characters >>

NoToken == [lexeme |-> << >>, category |-> "Text"]
Nothing == [call |-> "none"]

\* Lines a cursor can be on and ranges a view can show, for a buffer's text.
CursorLines(ts) == 0 .. Newlines(Flatten(ts))
LineRanges(ts) ==
    { r \in [start : 0 .. Newlines(Flatten(ts)),
             end   : 0 .. Newlines(Flatten(ts)) + 1] :
        r.start < r.end \/ r.end = 0 }

\* JumpMode::new, beside a buffer and a view of it.
Init ==
    /\ line_mode = TRUE
    /\ tag_positions = << >>
    /\ \E ts \in BufferTokens :
         \E cursor_line \in CursorLines(ts), range \in LineRanges(ts) :
            /\ buffer = [tokens |-> ts,
                         cursor |-> [line |-> cursor_line, offset |-> 0]]
            /\ visible_range = range
    /\ pc = "idle"
    /\ tokens_left = << >>
    /\ token = NoToken
    /\ subtokens = << >>
    /\ current_position = [line |-> 0, offset |-> 0]
    /\ jump_tokens = << >>
    /\ tag_generator = 0
    /\ single_characters = 0
    /\ issued = << >>
    /\ earlier = << >>
    /\ returned = Nothing

\* ------------------------------------------------------- JumpMode::tokens
\* let mut current_position = Position{ line: 0, offset: 0 }
StartPosition == [line |-> 0, offset |-> 0]

\* A pass that forgets to clear the map.
Kept(positions) == positions

\* self.tag_positions.clear()
Cleared(positions) == << >>

\* A generator that lives on from pass to pass.
ResumedTagGenerator(previous) == previous

\* TagGenerator::new()
NewTagGenerator(previous) == 0

\* SingleCharacterTagGenerator::new()
NewSingleCharacters(previous) == 0

\* A visibility test that takes the range's end for a visible line.
OffScreenPastEnd(range, line) == ~(range.start <= line /\ line <= range.end)

\* !visible_range.includes(current_position.line)
OffScreen(range, line) == ~includes(range, line)

\* A cursor test that lets the line above the cursor through.
ReachedLineAboveCursor(line, cursor) == line + 1 >= cursor.line

\* current_position.line >= buffer.cursor.line
ReachedCursor(line, cursor) == line >= cursor.line

\* subtoken.lexeme.len() > 1
LongEnough(lexeme) == ByteLen(lexeme) > 1

\* The `let tag = ...` expression: the tag, if any, and the generators after it.
ChooseTag(s, lexeme, b, range, mode) ==
    IF OffScreen(range, s.current_position.line)
    THEN [tag |-> None, tag_generator |-> s.tag_generator,
          single_characters |-> s.single_characters]
    ELSE IF mode
    THEN IF ReachedCursor(s.current_position.line, b.cursor)
         THEN LET n == SingleCharactersNext(s.single_characters)
              IN  [tag |-> n.tag, tag_generator |-> s.tag_generator,
                   single_characters |-> n.index]
         ELSE [tag |-> None, tag_generator |-> s.tag_generator,
               single_characters |-> s.single_characters]
    ELSE IF LongEnough(lexeme)
         THEN LET n == TagGeneratorNext(s.tag_generator)
              IN  [tag |-> n.tag, tag_generator |-> n.index,
                   single_characters |-> s.single_characters]
         ELSE [tag |-> None, tag_generator |-> s.tag_generator,
               single_characters |-> s.single_characters]

\* subtoken.lexeme.chars().skip(tag.len()).collect()
Remainder(lexeme, tag) == SubSeq(lexeme, ByteLen(tag) + 1, Len(lexeme))

\* self.tag_positions.insert(tag, current_position)
Insert(positions, tag, position) ==
    [t \in DOMAIN positions \cup {tag} |->
        IF t = tag THEN position ELSE positions[t]]

\* The two tokens pushed for a tagged sub-token.
TaggedTokens(lexeme, tag) ==
    << [lexeme |-> tag, category |-> "Keyword"],
       [lexeme |-> Remainder(lexeme, tag), category |-> "Text"] >>

\* A clone that keeps the parent token's whole lexeme.
WholeToken(tok, lexeme) == tok

\* The token pushed for an untagged sub-token: the parent token's clone
\* with the sub-token's lexeme.
PlainToken(tok, lexeme) == [tok EXCEPT !.lexeme = lexeme]

\* current_position.add(&Distance::from_str(&subtoken.lexeme))
SkipWhitespace(position, lexeme) == PositionAdd(position, DistanceFromStr(lexeme))

\* current_position.offset += subtoken.lexeme.len()
Advance(position, lexeme) ==
    [position EXCEPT !.offset = position.offset + ByteLen(lexeme)]

\* The body of the inner loop, on the pass's local state s.
Visit(s, tok, subtoken, b, range, mode) ==
    IF subtoken.category = "Whitespace"
    THEN [s EXCEPT !.current_position = SkipWhitespace(@, subtoken.lexeme),
                   !.jump_tokens = Append(@, subtoken)]
    ELSE LET c == ChooseTag(s, subtoken.lexeme, b, range, mode)
         IN  [current_position  |-> Advance(s.current_position, subtoken.lexeme),
              jump_tokens       |->
                  IF c.tag.some
                  THEN s.jump_tokens \o TaggedTokens(subtoken.lexeme, c.tag.value)
                  ELSE Append(s.jump_tokens, PlainToken(tok, subtoken.lexeme)),
              tag_positions     |->
                  IF c.tag.some
                  THEN Insert(s.tag_positions, c.tag.value, s.current_position)
                  ELSE s.tag_positions,
              tag_generator     |-> c.tag_generator,
              single_characters |-> c.single_characters]

\* The state the inner loop works on, as a record.
Local ==
    [current_position  |-> current_position,
     jump_tokens       |-> jump_tokens,
     tag_positions     |-> tag_positions,
     tag_generator     |-> tag_generator,
     single_characters |-> single_characters]

\* The text of the buffer.
InputText == Flatten(buffer.tokens)

\* Number of characters of the buffer the pass has moved past.
Consumed == Len(InputText) - Len(Flatten(subtokens)) - Len(Flatten(tokens_left))

\* tokens(): entry, up to the outer loop.
Tokens ==
    /\ pc = "idle"
    /\ pc' = "tagging"
    /\ jump_tokens' = << >>
    /\ current_position' = StartPosition
    /\ tag_positions' = Cleared(tag_positions)
    /\ tag_generator' = NewTagGenerator(tag_generator)
    /\ single_characters' = NewSingleCharacters(single_characters)
    /\ tokens_left' = buffer.tokens
    /\ token' = NoToken
    /\ subtokens' = << >>
    /\ issued' = << >>
    /\ earlier' = tag_positions
    /\ returned' = Nothing
    /\ UNCHANGED << line_mode, buffer, visible_range >>

\* for token in buffer.tokens(): the next token, split by the movement lexer.
NextToken ==
    /\ pc = "tagging"
    /\ subtokens = << >>
    /\ tokens_left # << >>
    /\ token' = Head(tokens_left)
    /\ tokens_left' = Tail(tokens_left)
    /\ subtokens' = lex(Head(tokens_left).lexeme)
    /\ UNCHANGED << line_mode, tag_positions, buffer, visible_range, pc,
                    current_position, jump_tokens, tag_generator,
                    single_characters, issued, earlier, returned >>

\* One turn of the inner loop.
VisitSubtoken ==
    /\ pc = "tagging"
    /\ subtokens # << >>
    /\ LET subtoken == Head(subtokens)
           r == Visit(Local, token, subtoken, buffer, visible_range, line_mode)
       IN  /\ current_position' = r.current_position
           /\ jump_tokens' = r.jump_tokens
           /\ tag_positions' = r.tag_positions
           /\ tag_generator' = r.tag_generator
           /\ single_characters' = r.single_characters
           /\ issued' =
                 IF Len(r.jump_tokens) = Len(jump_tokens) + 2
                 THEN Append(issued,
                        [tag      |-> r.jump_tokens[Len(jump_tokens) + 1].lexeme,
                         index    |-> Len(jump_tokens) + 1,
                         lexeme   |-> subtoken.lexeme,
                         start    |-> Consumed,
                         position |-> current_position])
                 ELSE issued
    /\ subtokens' = Tail(subtokens)
    /\ UNCHANGED << line_mode, buffer, visible_range, pc, tokens_left, token,
                    earlier, returned >>

\* Both loops are over: jump_tokens is what tokens() is about to return.
PassComplete == pc = "tagging" /\ tokens_left = << >> /\ subtokens = << >>

\* tokens() returns jump_tokens; its locals are dropped (the generators keep
\* their last value here until the next pass makes new ones).
Return ==
    /\ PassComplete
    /\ pc' = "idle"
    /\ returned' = [call |-> "tokens", value |-> jump_tokens]
    /\ tokens_left' = << >>
    /\ token' = NoToken
    /\ subtokens' = << >>
    /\ current_position' = StartPosition
    /\ jump_tokens' = << >>
    /\ UNCHANGED << line_mode, tag_positions, buffer, visible_range, issued,
                    earlier, tag_generator, single_characters >>

\* JumpMode::map_tag
map_tag(tag) ==
    IF tag \in DOMAIN tag_positions THEN Some(tag_positions[tag]) ELSE None

\* Tags a caller asks for: the empty tag, which no generator yields, and
\* the first tag of either generator.
Asked == { << >>, << "a" >>, << "a", "a" >> }

MapTag(tag) ==
    /\ pc = "idle"
    /\ returned' = [call |-> "map_tag", tag |-> tag, value |-> map_tag(tag)]
    /\ UNCHANGED << line_mode, tag_positions, buffer, visible_range, pc, issued,
                    earlier >>
    /\ UNCHANGED locals

\* The application writes the public field line_mode between passes.
SetLineMode(mode) ==
    /\ pc = "idle"
    /\ line_mode # mode
    /\ line_mode' = mode
    /\ UNCHANGED << tag_positions, buffer, visible_range, pc, issued, earlier,
                    returned >>
    /\ UNCHANGED locals

\* The buffer is emptied between passes.
ClearBuffer ==
    /\ pc = "idle"
    /\ buffer.tokens # << >>
    /\ buffer' = [tokens |-> << >>, cursor |-> [line |-> 0, offset |-> 0]]
    /\ UNCHANGED << line_mode, tag_positions, visible_range, pc, issued, earlier,
                    returned >>
    /\ UNCHANGED locals

Next ==
    \/ Tokens
    \/ NextToken
    \/ VisitSubtoken
    \/ Return
    \/ \E tag \in Asked : MapTag(tag)
    \/ \E mode \in BOOLEAN : SetLineMode(mode)
    \/ ClearBuffer

Spec == Init /\ [][Next]_vars

\* ------------------------------------------------------------- properties
\* The buffer coordinate of the character that n characters precede.
TruePosition(n) ==
    [line   |-> Newlines(SubSeq(InputText, 1, n)),
     offset |-> LastLineLen(SubSeq(InputText, 1, n))]

\* Indices of the returned tokens that are Keyword tokens with lexeme t.
KeywordTokens(t) ==
    { i \in DOMAIN jump_tokens :
        jump_tokens[i].category = "Keyword" /\ jump_tokens[i].lexeme = t }

\* The characters of a tagged sub-token that its tag stands in for.
Overwritten(e) ==
    SubSeq(e.lexeme, 1, IF Len(e.tag) < Len(e.lexeme) THEN Len(e.tag)
                        ELSE Len(e.lexeme))

\* The returned tokens with every tag span replaced by what it overwrote.
Restored ==
    [i \in DOMAIN jump_tokens |->
        IF \E k \in DOMAIN issued : issued[k].index = i
        THEN [lexeme   |-> Overwritten(issued[CHOOSE k \in DOMAIN issued :
                                                  issued[k].index = i]),
              category |-> jump_tokens[i].category]
        ELSE jump_tokens[i]]

RECURSIVE VisitAll(_, _, _, _, _, _)
\* The inner loop over the sub-tokens subs of token tok.
VisitAll(s, tok, subs, b, range, mode) ==
    IF subs = << >> THEN s
    ELSE VisitAll(Visit(s, tok, Head(subs), b, range, mode), tok, Tail(subs),
                  b, range, mode)

RECURSIVE PassOver(_, _, _, _, _)
\* The outer loop over the tokens ts.
PassOver(s, ts, b, range, mode) ==
    IF ts = << >> THEN s
    ELSE PassOver(VisitAll(s, Head(ts), lex(Head(ts).lexeme), b, range, mode),
                  Tail(ts), b, range, mode)

\* What the first pass of a newly made JumpMode computes for these inputs.
FirstPass(b, range, mode) ==
    PassOver([current_position  |-> [line |-> 0, offset |-> 0],
              jump_tokens       |-> << >>,
              tag_positions     |-> << >>,
              tag_generator     |-> 0,
              single_characters |-> 0],
             b.tokens, b, range, mode)

\* The sub-token the inner loop is about to visit is not whitespace.
AtWord == pc = "tagging" /\ subtokens # << >>
          /\ Head(subtokens).category # "Whitespace"

\* This step emits the sub-token at hand untagged and takes no tag from
\* either generator.
PassedOver ==
    /\ jump_tokens' = Append(jump_tokens,
                             [lexeme   |-> Head(subtokens).lexeme,
                              category |-> token.category])
    /\ tag_positions' = tag_positions
    /\ tag_generator' = tag_generator
    /\ single_characters' = single_characters

\* C1: after a pass, every Keyword token returned has a lexeme that is a key
\* of tag_positions, and every key of tag_positions is the lexeme of exactly
\* one Keyword token returned.
C1_KeywordsAreTags ==
    PassComplete =>
        /\ \A i \in DOMAIN jump_tokens :
              jump_tokens[i].category = "Keyword"
                  => jump_tokens[i].lexeme \in DOMAIN tag_positions
        /\ \A t \in DOMAIN tag_positions : Cardinality(KeywordTokens(t)) = 1

\* C2 (as stated): the lexemes of the returned tokens, concatenated, are the
\* text of the input tokens.
C2_RoundTrip == PassComplete => Flatten(jump_tokens) = InputText

\* C2 (amended): the lexemes of the returned tokens, concatenated with every
\* tag span replaced by the leading characters of the sub-token it stands in
\* for, are the text of the input tokens; a pass that hands out no tag
\* returns the input text itself.
C2_RoundTripOutsideTags ==
    PassComplete =>
        /\ Flatten(Restored) = InputText
        /\ issued = << >> => Flatten(jump_tokens) = InputText

\* C2 witness: a pass has handed out a tag and rewritten the text with it.
C2_Witness ==
    PassComplete /\ issued # << >> /\ Flatten(jump_tokens) # InputText

\* C3: every recorded position lies on a line of the visible range, and a
\* non-whitespace sub-token that starts on a line outside it is emitted
\* untagged, adds no entry and takes no tag from either generator.
C3_OnlyVisibleLinesTagged ==
    /\ [](\A t \in DOMAIN tag_positions :
             includes(visible_range, tag_positions[t].line))
    /\ [][(AtWord /\ ~includes(visible_range, TruePosition(Consumed).line))
              => PassedOver]_vars

\* C3 witness: a pass in anywhere mode has passed over a word on line 0,
\* above the visible range, that was long enough to tag, and has tagged a
\* word on line 1.
C3_Witness ==
    /\ PassComplete /\ ~line_mode
    /\ visible_range = [start |-> 1, end |-> 2]
    /\ Len(issued) = 1 /\ issued[1].index > 1
    /\ jump_tokens[1].category # "Whitespace"
    /\ ByteLen(jump_tokens[1].lexeme) > 1
    /\ tag_positions[issued[1].tag].line = 1

\* C4: the position recorded for a tag is the buffer coordinate of the first
\* character of the tagged sub-token: the newlines before it, and the
\* characters between the last of them and it.
C4_PositionsAreTrue ==
    \A k \in DOMAIN issued :
        /\ issued[k].tag \in DOMAIN tag_positions
        /\ tag_positions[issued[k].tag] = TruePosition(issued[k].start)

\* C5: map_tag finds a tag exactly when the latest pass handed it out, and
\* then finds the position that pass recorded; nothing is found before the
\* first pass, and nothing an earlier pass left is found; map_tag changes
\* nothing of the JumpMode.
C5_MapTagIsLatestPass ==
    /\ [](\A t \in Asked \cup DOMAIN tag_positions \cup DOMAIN earlier
                   \cup { issued[k].tag : k \in DOMAIN issued } :
             map_tag(t) =
                 IF \E k \in DOMAIN issued : issued[k].tag = t
                 THEN Some(issued[CHOOSE k \in DOMAIN issued :
                                      issued[k].tag = t].position)
                 ELSE None)
    /\ [][(returned' # returned /\ returned'.call = "map_tag")
              => /\ tag_positions' = tag_positions
                 /\ line_mode' = line_mode
                 /\ returned'.value = map_tag(returned'.tag)]_vars

\* C5 witness: map_tag was asked for a tag that the pass before the latest
\* had handed out and the latest, which handed out another, had not.
C5_Witness ==
    /\ pc = "idle" /\ returned.call = "map_tag"
    /\ returned.tag \in DOMAIN earlier
    /\ returned.tag \notin DOMAIN tag_positions
    /\ tag_positions # << >>
    /\ ~returned.value.some

\* C6: a pass returns the tokens and leaves the tag_positions that the first
\* pass of a new JumpMode computes for the same token stream, cursor line,
\* visible range and mode, whatever passes ran before; the first tag it hands
\* out is the first value of the generator in use.
C6_PassesAreRepeatable ==
    PassComplete =>
        LET first == FirstPass(buffer, visible_range, line_mode)
        IN  /\ jump_tokens = first.jump_tokens
            /\ tag_positions = first.tag_positions
            /\ issued # << >> =>
                 issued[1].tag = IF line_mode THEN << "a" >> ELSE << "a", "a" >>

\* C6 witness: a pass in anywhere mode has handed out tags after an earlier
\* pass in the same mode had.
C6_Witness ==
    /\ PassComplete /\ ~line_mode /\ issued # << >>
    /\ << "a", "a" >> \in DOMAIN earlier

\* C7: in line mode no two recorded positions are on the same line.
C7_OneTagPerLine ==
    (pc = "tagging" /\ line_mode) =>
        \A t, u \in DOMAIN tag_positions :
            t # u => tag_positions[t].line # tag_positions[u].line

\* C8: in anywhere mode no sub-token of a single character is tagged.
C8_SingleCharacterUntagged ==
    (pc = "tagging" /\ ~line_mode) =>
        \A k \in DOMAIN issued : Len(issued[k].lexeme) > 1

\* C9: in line mode every recorded position is on or below the cursor's
\* line, every tag is a single character and the multi-character generator
\* is never asked; a sub-token above the cursor's line is emitted untagged
\* and takes no single-character tag.
C9_LineModeFromCursorDown ==
    /\ []((pc = "tagging" /\ line_mode) =>
             /\ \A t \in DOMAIN tag_positions :
                   /\ tag_positions[t].line >= buffer.cursor.line
                   /\ Len(t) = 1
             /\ tag_generator = 0)
    /\ [][(AtWord /\ line_mode
             /\ TruePosition(Consumed).line < buffer.cursor.line)
              => PassedOver]_vars

\* C9 witness: a pass in line mode with the cursor on line 1 has passed over
\* a word on the visible line 0 and tagged one further down.
C9_Witness ==
    /\ PassComplete /\ line_mode
    /\ buffer.cursor.line = 1 /\ visible_range.start = 0
    /\ issued # << >> /\ issued[1].index > 1
    /\ jump_tokens[1].category # "Whitespace"
    /\ tag_positions[issued[1].tag].line >= 1

\* C10: a tag span and the remainder span after it have together as many
\* characters as the sub-token they replace, the remainder being the
\* sub-token without its first len(tag) characters, so the returned text is
\* as long as the input text.
C10_TagOverwritesInPlace ==
    PassComplete =>
        /\ \A k \in DOMAIN issued :
              LET tag  == jump_tokens[issued[k].index].lexeme
                  rest == jump_tokens[issued[k].index + 1].lexeme
              IN  /\ Len(tag) + Len(rest) = Len(issued[k].lexeme)
                  /\ rest = SubSeq(issued[k].lexeme, Len(tag) + 1,
                                   Len(issued[k].lexeme))
        /\ Len(Flatten(jump_tokens)) = Len(InputText)

====
